---- MODULE Spec2Model ----
(***************************************************************************)
(* A model of api-picker's schema-processing module (src/src/openapi.ts)   *)
(* and of the part of the App component (src/unnamed/part_000) that feeds  *)
(* it.                                                                     *)
(*                                                                         *)
(* JSON objects are functions from their own keys to values, so that a key *)
(* is present exactly when it is in the DOMAIN.  Objects whose key order   *)
(* the code reads (paths, methods, properties, responses, content) are     *)
(* sequences of <<key, value>> pairs in the order the document text        *)
(* declares them and go through ObjectEntries, which orders them as a      *)
(* JavaScript engine enumerates own keys.                                   *)
(*                                                                         *)
(* A reference string is the sequence of its "/"-separated segments:       *)
(* "#/definitions/A" is <<"#", "definitions", "A">>.                       *)
(***************************************************************************)
EXTENDS Integers, Sequences, FiniteSets, TLC

VARIABLES
    doc,          \* the loaded OpenApiDocument
    schema,       \* the schema handed to flattenSchemaFields / schemaToTypeText
    fields,       \* outcome of flattenSchemaFields(doc, schema)
    typeText,     \* outcome of schemaToTypeText(doc, schema)
    operations,   \* App: useMemo(buildOperations(doc))
    selected,     \* App: useState<Record<string, boolean>>
    exportText,   \* App: useState('') -- the lines of the report
    op,           \* the operation object handed to buildRequestLines / buildResponseLines
    reqLines,     \* outcome of buildRequestLines(doc, op)
    respLines,    \* outcome of buildResponseLines(doc, op)
    resolved,     \* results of resolveSchema applied to schema, then to each result
    search,       \* App: useState('') -- the search box
    url,          \* App: useState('') -- the URL box
    fileName,     \* App: useState(<no file chosen>)
    loadStatus,   \* App: useState<LoadStatus>({ kind: 'idle' })
    inFlight      \* App: the calls of loadByFile / loadByUrl stopped at their await

vars == <<doc, schema, fields, typeText, operations, selected, exportText,
          op, reqLines, respLines, resolved,
          search, url, fileName, loadStatus, inFlight>>

\* the state of the App component that only its own handlers read or write
ui == <<search, url, fileName, loadStatus, inFlight>>

\* Depth of the call stack at which the engine raises RangeError.
MaxStack == 9

Pending == [pending |-> TRUE]
IsPending(r) == "pending" \in DOMAIN r

Undefined == [undefined |-> TRUE]
IsUndefined(v) == "undefined" \in DOMAIN v

Range(s) == {s[i] : i \in 1..Len(s)}

(***************************************************************************)
(* Own-key enumeration of a parsed JSON object                             *)
(***************************************************************************)

\* The keys of the model that are canonical array indices, with their values.
IndexValue ==
    ("0" :> 0) @@ ("1" :> 1) @@ ("200" :> 200) @@ ("201" :> 201) @@
    ("204" :> 204) @@ ("400" :> 400) @@ ("404" :> 404) @@ ("500" :> 500)

IsArrayIndex(k) == k \in DOMAIN IndexValue

RECURSIVE ascendingIndex(_)
ascendingIndex(es) ==
    IF es = <<>> THEN <<>>
    ELSE LET m == CHOOSE i \in 1..Len(es) :
                      \A j \in 1..Len(es) : IndexValue[es[i][1]] <= IndexValue[es[j][1]]
         IN <<es[m]>> \o ascendingIndex(SubSeq(es, 1, m - 1) \o SubSeq(es, m + 1, Len(es)))

\* Object.entries(obj) / Object.keys(obj) of the object parsed from the
\* declared entries: integer-like keys in ascending order, then the other
\* keys in the order of their declaration.
ObjectEntries(decl) ==
    ascendingIndex(SelectSeq(decl, LAMBDA e : IsArrayIndex(e[1])))
    \o SelectSeq(decl, LAMBDA e : ~IsArrayIndex(e[1]))

HasKey(decl, k) == \E i \in 1..Len(decl) : decl[i][1] = k

\* obj[k]
Lookup(decl, k) ==
    IF HasKey(decl, k) THEN decl[CHOOSE i \in 1..Len(decl) : decl[i][1] = k][2]
    ELSE Undefined

Null == [null |-> TRUE]
IsNull(v) == "null" \in DOMAIN v
\* the left operand of ?? is null or undefined
IsNullish(v) == IsUndefined(v) \/ IsNull(v)

(***************************************************************************)
(* Strings                                                                 *)
(***************************************************************************)

\* the white space String.prototype.trim / trimEnd remove, as far as the
\* texts of the model hold any
WhiteSpace == {" ", "\t", "\n", "\r", "\f"}

CharAt(str, i) == SubSeq(str, i, i)

RECURSIVE trimEndString(_)
\* String.prototype.trimEnd
trimEndString(str) ==
    IF str # "" /\ CharAt(str, Len(str)) \in WhiteSpace
    THEN trimEndString(SubSeq(str, 1, Len(str) - 1))
    ELSE str

RECURSIVE trimStartString(_)
\* String.prototype.trimStart
trimStartString(str) ==
    IF str # "" /\ CharAt(str, 1) \in WhiteSpace
    THEN trimStartString(SubSeq(str, 2, Len(str)))
    ELSE str

\* String.prototype.trim
trim(str) == trimEndString(trimStartString(str))

\* String.prototype.includes
includes(str, q) ==
    \E i \in 1..(Len(str) - Len(q) + 1) : SubSeq(str, i, i + Len(q) - 1) = q

UpperCaseLetters == "ABCDEFGHIJKLMNOPQRSTUVWXYZ"
LowerCaseLetters == "abcdefghijklmnopqrstuvwxyz"

\* the letter of `to` at the place c has in `from`, or c itself
mapLetter(c, from, to) ==
    IF \E i \in 1..Len(from) : CharAt(from, i) = c
    THEN CharAt(to, CHOOSE i \in 1..Len(from) : CharAt(from, i) = c)
    ELSE c

RECURSIVE mapLetters(_, _, _)
mapLetters(str, from, to) ==
    IF str = "" THEN ""
    ELSE mapLetter(CharAt(str, 1), from, to) \o mapLetters(SubSeq(str, 2, Len(str)), from, to)

(***************************************************************************)
(* Reference Resolver                                                      *)
(***************************************************************************)

\* schema.$ref is truthy: present and not the empty string
HasRef(s) == "$ref" \in DOMAIN s /\ s["$ref"] # <<>>

\* { ...direct, ...schema }
Spread(direct, s) ==
    [k \in (DOMAIN direct) \cup (DOMAIN s) |-> IF k \in DOMAIN s THEN s[k] ELSE direct[k]]

\* delete merged[key]
Delete(s, key) == [k \in (DOMAIN s) \ {key} |-> s[k]]

\* The documents of the model keep their schemas in the `definitions` table,
\* so a pointer resolves when it is "#/definitions/<name>" with <name> a key
\* of that table; every other pointer of the model walks off the document.
resolveRef(d, ref) ==
    IF ~(Len(ref) >= 2 /\ ref[1] = "#") THEN Undefined
    ELSE LET parts == Tail(ref) IN
         IF /\ Len(parts) = 2
            /\ parts[1] = "definitions"
            /\ "definitions" \in DOMAIN d
            /\ parts[2] \in DOMAIN d.definitions
         THEN d.definitions[parts[2]]
         ELSE Undefined

resolveSchema(d, s) ==
    IF ~HasRef(s) THEN s
    ELSE LET direct == resolveRef(d, s["$ref"]) IN
         IF IsUndefined(direct) THEN s
         ELSE Delete(Spread(direct, s), "$ref")

refToName(ref) == ref[Len(ref)]

(***************************************************************************)
(* Type Renderer                                                           *)
(***************************************************************************)

Thrown == [threw |-> TRUE, text |-> ""]
Text(t) == [threw |-> FALSE, text |-> t]

\* x?.length is truthy
NonEmptyList(s, k) == k \in DOMAIN s /\ s[k] # <<>>

RECURSIVE joinStrings(_, _)
joinStrings(xs, sep) ==
    IF xs = <<>> THEN ""
    ELSE IF Len(xs) = 1 THEN xs[1]
    ELSE xs[1] \o sep \o joinStrings(Tail(xs), sep)

\* `${before}${r}${after}`, unless rendering r threw
wrapText(before, r, after) ==
    IF r.threw THEN Thrown ELSE Text(before \o r.text \o after)

\* [h, t].join(sep), unless rendering h or t threw
joinText(h, sep, t) ==
    IF h.threw THEN Thrown
    ELSE IF t.threw THEN Thrown
    ELSE Text(h.text \o sep \o t.text)

RECURSIVE schemaToTypeText(_, _, _)
RECURSIVE mapTypeText(_, _, _, _)
RECURSIVE typeTextOfResolved(_, _, _)

\* members.map((x) => schemaToTypeText(doc, x)).join(sep)
mapTypeText(d, members, sep, depth) ==
    IF members = <<>> THEN Text("")
    ELSE IF Len(members) = 1 THEN schemaToTypeText(d, members[1], depth)
    ELSE joinText(schemaToTypeText(d, members[1], depth), sep,
                  mapTypeText(d, Tail(members), sep, depth))

\* schemaToTypeText from `const type = s.type` on, s being the resolved schema
typeTextOfResolved(d, s, depth) ==
    IF ~("type" \in DOMAIN s /\ s.type # "") THEN
        IF NonEmptyList(s, "allOf") THEN mapTypeText(d, s.allOf, " & ", depth + 1)
        ELSE IF NonEmptyList(s, "oneOf") THEN mapTypeText(d, s.oneOf, " | ", depth + 1)
        ELSE IF NonEmptyList(s, "anyOf") THEN mapTypeText(d, s.anyOf, " | ", depth + 1)
        ELSE IF "properties" \in DOMAIN s THEN Text("object")
        ELSE IF HasRef(s) THEN Text(refToName(s["$ref"]))
        ELSE Text("unknown")
    ELSE IF s.type = "integer" /\ "format" \in DOMAIN s /\ s.format \in {"int64", "uint64"}
        THEN Text("string")
    ELSE IF s.type = "array" THEN
        wrapText("",
                 schemaToTypeText(d, IF "items" \in DOMAIN s THEN s.items ELSE Undefined,
                                  depth + 1),
                 "[]")
    ELSE IF s.type = "object" THEN
        IF "additionalProperties" \in DOMAIN s /\ "bool" \notin DOMAIN s.additionalProperties
        THEN wrapText("Record<string, ",
                      schemaToTypeText(d, s.additionalProperties, depth + 1), ">")
        ELSE Text("object")
    ELSE IF s.type = "string" /\ NonEmptyList(s, "enum")
        THEN Text("string(enum: " \o joinStrings(s.enum, ", ") \o ")")
    ELSE IF "format" \in DOMAIN s /\ s.format # ""
        THEN Text(s.type \o "(" \o s.format \o ")")
    ELSE Text(s.type)

\* A call deeper than MaxStack raises RangeError.
schemaToTypeText(d, sch, depth) ==
    IF depth > MaxStack THEN Thrown
    ELSE IF IsUndefined(sch) THEN Text("unknown")
    ELSE typeTextOfResolved(d, resolveSchema(d, sch), depth)

(***************************************************************************)
(* Field Flattener                                                         *)
(***************************************************************************)

\* The walk's mutable arguments: `out`, `visitedRefs`, and whether a
\* RangeError is unwinding the stack.  `chains` is a history of the walk: for
\* each descriptor of `out` the property steps that led to it, each with
\* whether the object node declaring the property lists it as required.
WalkStart == [threw |-> FALSE, out |-> <<>>, visitedRefs |-> {}, chains |-> <<>>]

\* out.push({ name, type, required, description })
push(st, name, type, required, s, chain) ==
    IF type.threw THEN [st EXCEPT !.threw = TRUE]
    ELSE LET f == [name |-> name, type |-> type.text, required |-> required]
             fd == IF "description" \in DOMAIN s
                   THEN Spread(f, [description |-> s.description]) ELSE f
         IN [st EXCEPT !.out = Append(@, fd), !.chains = Append(@, chain)]

\* prefix || '(root)'
rootName(prefix) == IF prefix # "" THEN prefix ELSE "(root)"

childRequiredIgnoringParent(parentRequired, requiredSet, key) == key \in requiredSet

\* const required = parentRequired && requiredSet.has(key)
childRequired(parentRequired, requiredSet, key) == parentRequired /\ key \in requiredSet

isLeaf(rc) ==
    /\ ~HasRef(rc)
    /\ "properties" \notin DOMAIN rc
    /\ ~("type" \in DOMAIN rc /\ rc.type = "object")
    /\ ~("type" \in DOMAIN rc /\ rc.type = "array")

\* schema.oneOf ?? schema.anyOf ?? []
unionMembers(s) ==
    IF "oneOf" \in DOMAIN s THEN s.oneOf
    ELSE IF "anyOf" \in DOMAIN s THEN s.anyOf
    ELSE <<>>

passChildUnresolved(d, child) == child

\* const resolvedChild = resolveSchema(doc, child)
resolveChild(d, child) == resolveSchema(d, child)

RECURSIVE walkSchema(_, _, _, _, _, _, _)
RECURSIVE walkAllOf(_, _, _, _, _, _, _)
RECURSIVE walkProperties(_, _, _, _, _, _, _, _)
RECURSIVE walkProperty(_, _, _, _, _, _, _)
RECURSIVE walkObject(_, _, _, _, _, _, _, _, _)

\* for (const part of schema.allOf) walkSchema(doc, resolveSchema(doc, part), ...)
walkAllOf(d, parts, prefix, parentRequired, chain, st, depth) ==
    IF parts = <<>> THEN st
    ELSE IF st.threw THEN st
    ELSE walkAllOf(d, Tail(parts), prefix, parentRequired, chain,
                   walkSchema(d, resolveSchema(d, parts[1]), prefix, parentRequired,
                              chain, st, depth + 1),
                   depth)

\* the body of the property loop, resolvedChild being resolveSchema(doc, child)
walkProperty(d, resolvedChild, childPrefix, required, childChain, st, depth) ==
    IF isLeaf(resolvedChild)
    THEN push(st, childPrefix, schemaToTypeText(d, resolvedChild, depth + 1),
              required, resolvedChild, childChain)
    ELSE IF "type" \in DOMAIN resolvedChild /\ resolvedChild.type = "array"
    THEN push(st, childPrefix, schemaToTypeText(d, resolvedChild, depth + 1),
              required, resolvedChild, childChain)
    ELSE walkSchema(d, resolvedChild, childPrefix, required, childChain, st, depth + 1)

\* for (const [key, child] of propEntries) { ... }
walkProperties(d, propEntries, requiredSet, prefix, parentRequired, chain, st, depth) ==
    IF propEntries = <<>> THEN st
    ELSE IF st.threw THEN st
    ELSE walkProperties(d, Tail(propEntries), requiredSet, prefix, parentRequired, chain,
            walkProperty(d, resolveChild(d, propEntries[1][2]),
                         IF prefix # "" THEN prefix \o "." \o propEntries[1][1]
                         ELSE propEntries[1][1],
                         childRequired(parentRequired, requiredSet, propEntries[1][1]),
                         Append(chain, [key |-> propEntries[1][1],
                                        listed |-> propEntries[1][1] \in requiredSet]),
                         st, depth),
            depth)

\* the object branch of walkSchema
walkObject(d, s, requiredSet, propEntries, prefix, parentRequired, chain, st, depth) ==
    IF propEntries = <<>>
    THEN push(st, rootName(prefix), schemaToTypeText(d, s, depth + 1),
              parentRequired, s, chain)
    ELSE walkProperties(d, propEntries, requiredSet, prefix, parentRequired,
                        chain, st, depth)

walkSchema(d, s, prefix, parentRequired, chain, st, depth) ==
    IF depth > MaxStack THEN [st EXCEPT !.threw = TRUE]
    ELSE IF IsUndefined(s) THEN st
    ELSE IF HasRef(s) THEN
        IF s["$ref"] \in st.visitedRefs THEN st
        ELSE walkSchema(d, resolveSchema(d, s), prefix, parentRequired, chain,
                        [st EXCEPT !.visitedRefs = @ \cup {s["$ref"]}], depth + 1)
    ELSE IF NonEmptyList(s, "allOf") THEN
        walkAllOf(d, s.allOf, prefix, parentRequired, chain, st, depth)
    ELSE IF NonEmptyList(s, "oneOf") \/ NonEmptyList(s, "anyOf") THEN
        push(st, rootName(prefix), mapTypeText(d, unionMembers(s), " | ", depth + 1),
             parentRequired, s, chain)
    ELSE IF \/ ("type" \in DOMAIN s /\ s.type = "object")
            \/ (~("type" \in DOMAIN s /\ s.type # "") /\ "properties" \in DOMAIN s) THEN
        walkObject(d, s,
                   IF "required" \in DOMAIN s THEN Range(s.required) ELSE {},
                   IF "properties" \in DOMAIN s THEN ObjectEntries(s.properties) ELSE <<>>,
                   prefix, parentRequired, chain, st, depth)
    ELSE push(st, rootName(prefix), schemaToTypeText(d, s, depth + 1), parentRequired, s, chain)

\* The outcome of a call: it threw (RangeError), or it returned `out`.
walkOutcome(st) ==
    IF st.threw THEN [threw |-> TRUE, out |-> <<>>, chains |-> <<>>]
    ELSE [threw |-> FALSE, out |-> st.out, chains |-> st.chains]

flattenSchemaFields(d, s) ==
    walkOutcome(walkSchema(d, resolveSchema(d, s), "", TRUE, <<>>, WalkStart, 1))

(***************************************************************************)
(* Operation Extractor                                                     *)
(***************************************************************************)

httpMethods == {"get", "post", "put", "delete", "patch", "head", "options", "trace"}

\* String.prototype.toLowerCase
toLowerCase(k) == mapLetters(k, UpperCaseLetters, LowerCaseLetters)

\* String.prototype.toUpperCase
toUpperCase(k) == mapLetters(k, LowerCaseLetters, UpperCaseLetters)

\* The path templates and method names of the model, in collation order.
Collation ==
    <<"/a", "/a:b", "/b",
      "delete", "get", "head", "options", "patch", "post", "put", "trace">>

CollationRank(x) == CHOOSE i \in 1..Len(Collation) : Collation[i] = x

\* a.localeCompare(b): negative, zero or positive
localeCompare(a, b) == CollationRank(a) - CollationRank(b)

\* A parsed JSON object whose key order matters is [object |-> entries].
IsObject(v) == "object" \in DOMAIN v

\* the comparator handed to out.sort
compareOperations(a, b) ==
    IF a.path = b.path THEN localeCompare(a.method, b.method)
    ELSE localeCompare(a.path, b.path)

\* Array.prototype.sort is stable: an element goes before the first element
\* that compares greater.
insertSorted(sorted, x) ==
    LET greater == {i \in 1..Len(sorted) : compareOperations(sorted[i], x) > 0}
        k == IF greater = {} THEN Len(sorted) + 1
             ELSE CHOOSE i \in greater : \A j \in greater : i <= j
    IN SubSeq(sorted, 1, k - 1) \o <<x>> \o SubSeq(sorted, k, Len(sorted))

RECURSIVE sortOperations(_, _)
sortOperations(sorted, rest) ==
    IF rest = <<>> THEN sorted
    ELSE sortOperations(insertSorted(sorted, rest[1]), Tail(rest))

\* the record pushed for one method entry
operationRecord(pathKey, method, operation) ==
    LET id == IF "operationId" \in DOMAIN operation /\ operation.operationId # ""
              THEN method \o ":" \o pathKey \o ":" \o operation.operationId
              ELSE method \o ":" \o pathKey
        r0 == [id |-> id, path |-> pathKey, method |-> toLowerCase(method),
               operation |-> operation]
        r1 == IF "tags" \in DOMAIN operation THEN Spread(r0, [tags |-> operation.tags])
              ELSE r0
    IN IF "summary" \in DOMAIN operation THEN Spread(r1, [summary |-> operation.summary])
       ELSE r1

RECURSIVE methodLoop(_, _, _)
\* for (const [method, opUnknown] of Object.entries(methods)) { ... }
\* Reading operationId of null raises TypeError.
methodStep(pathKey, method, opUnknown, acc) ==
    IF toLowerCase(method) \notin httpMethods THEN acc
    ELSE IF IsNull(opUnknown) THEN [acc EXCEPT !.threw = TRUE]
    ELSE [acc EXCEPT !.out = Append(@, operationRecord(pathKey, method, opUnknown))]

methodLoop(pathKey, entries, acc) ==
    IF entries = <<>> THEN acc
    ELSE IF acc.threw THEN acc
    ELSE methodLoop(pathKey, Tail(entries),
                    methodStep(pathKey, entries[1][1], entries[1][2], acc))

RECURSIVE pathLoop(_, _)
\* for (const [pathKey, methods] of Object.entries(paths)) { ... }
pathStep(pathKey, methods, acc) ==
    IF ~IsObject(methods) THEN acc
    ELSE methodLoop(pathKey, ObjectEntries(methods.object), acc)

pathLoop(entries, acc) ==
    IF entries = <<>> THEN acc
    ELSE IF acc.threw THEN acc
    ELSE pathLoop(Tail(entries), pathStep(entries[1][1], entries[1][2], acc))

\* The outcome of a call: it threw (TypeError), or it returned the sorted `out`.
sortedOutcome(acc) ==
    IF acc.threw THEN [threw |-> TRUE, out |-> <<>>]
    ELSE [threw |-> FALSE, out |-> sortOperations(<<>>, acc.out)]

buildOperations(d) ==
    sortedOutcome(pathLoop(ObjectEntries(IF "paths" \in DOMAIN d THEN d.paths ELSE <<>>),
                           [threw |-> FALSE, out |-> <<>>]))

(***************************************************************************)
(* Report Builder                                                          *)
(***************************************************************************)

\* The report's labels are Chinese text in the source; the model writes them
\* in ASCII.
LabelSummary == "summary: "
LabelTags == "tags: "
LabelRequest == "request parameters:"
LabelResponse == "response parameters:"
LabelNone == "- none"
LabelRequired == " (required)"

NoLines == [threw |-> FALSE, lines |-> <<>>]
ThrownLines == [threw |-> TRUE, lines |-> <<>>]

\* `${f.name}: ${f.type}${f.required ? ' (..)' : ''}${f.description ? ` ${f.description}` : ''}`
fieldText(f) ==
    f.name \o ": " \o f.type
    \o (IF f.required THEN LabelRequired ELSE "")
    \o (IF "description" \in DOMAIN f /\ f.description # "" THEN " " \o f.description ELSE "")

RECURSIVE fieldLines(_, _)
fieldLines(fs, indent) ==
    IF fs = <<>> THEN <<>>
    ELSE <<indent \o fieldText(fs[1])>> \o fieldLines(Tail(fs), indent)

\* content['application/json'] ?? content['*/*'] ?? content['application/*+json']
jsonContent(content) ==
    IF "application/json" \in DOMAIN content /\ ~IsNull(content["application/json"])
    THEN content["application/json"]
    ELSE IF "*/*" \in DOMAIN content /\ ~IsNull(content["*/*"])
    THEN content["*/*"]
    ELSE IF "application/*+json" \in DOMAIN content
    THEN content["application/*+json"]
    ELSE Undefined

extractRequestBodySchema(o) ==
    IF ~("requestBody" \in DOMAIN o /\ ~IsNull(o.requestBody)) THEN Undefined
    ELSE LET rb == o.requestBody
             content == IF "content" \in DOMAIN rb THEN rb.content ELSE <<>>
             json == jsonContent(content)
         IN IF ~IsNullish(json) /\ "schema" \in DOMAIN json THEN json.schema ELSE Undefined

extractResponseSchema(resp) ==
    LET content == IF "content" \in DOMAIN resp THEN resp.content ELSE <<>>
        json == jsonContent(content)
    IN IF ~IsNullish(json) /\ "schema" \in DOMAIN json THEN json.schema
       ELSE IF "schema" \in DOMAIN resp THEN resp.schema
       ELSE Undefined

normalizeParameterSchema(p) ==
    IF "schema" \in DOMAIN p THEN p.schema
    ELSE IF "type" \in DOMAIN p /\ p.type # "" THEN
        [k \in {"type", "format", "items"} \cap DOMAIN p |-> p[k]]
    ELSE Undefined

\* p.in ?? 'unknown'
parameterGroup(p) == IF "in" \in DOMAIN p THEN p["in"] ELSE "unknown"

\* The parameter locations of the model in the order of Array.prototype.sort
\* (UTF-16 code units).
LocationOrder == <<"cookie", "header", "path", "query", "unknown">>

\* the lines h followed by the lines t, unless building either threw
concatLines(h, t) ==
    IF h.threw THEN ThrownLines
    ELSE IF t.threw THEN ThrownLines
    ELSE [threw |-> FALSE, lines |-> h.lines \o t.lines]

Lines(ls) == [threw |-> FALSE, lines |-> ls]

\* one line `${before}${t}${after}`, unless rendering t threw
textLine(before, t, after) ==
    IF t.threw THEN ThrownLines ELSE Lines(<<before \o t.text \o after>>)

parameterLine(d, p) ==
    textLine("  - " \o (IF "name" \in DOMAIN p THEN p.name ELSE "(unnamed)") \o ": ",
             schemaToTypeText(d, normalizeParameterSchema(p), 1),
             (IF "required" \in DOMAIN p /\ p.required THEN LabelRequired ELSE "")
             \o (IF "description" \in DOMAIN p /\ p.description # ""
                 THEN " " \o p.description ELSE ""))

RECURSIVE groupLines(_, _, _)
\* for (const p of groups[key]) { ... }
groupLines(d, key, params) ==
    IF params = <<>> THEN NoLines
    ELSE IF parameterGroup(params[1]) # key THEN groupLines(d, key, Tail(params))
    ELSE concatLines(parameterLine(d, params[1]), groupLines(d, key, Tail(params)))

RECURSIVE parameterLines(_, _, _)
\* for (const key of Object.keys(groups).sort()) { ... }
parameterLines(d, keys, params) ==
    IF keys = <<>> THEN NoLines
    ELSE IF \A i \in 1..Len(params) : parameterGroup(params[i]) # keys[1]
    THEN parameterLines(d, Tail(keys), params)
    ELSE concatLines(concatLines(Lines(<<"- " \o keys[1] \o ":">>),
                                 groupLines(d, keys[1], params)),
                     parameterLines(d, Tail(keys), params))

\* fields.length === 0 ? [typeText] : fields.map(...)
fieldsOrType(fs, t, indent) ==
    IF fs.threw THEN ThrownLines
    ELSE IF fs.out = <<>> THEN textLine(indent, t, "")
    ELSE Lines(fieldLines(fs.out, indent))

\* the lines for the fields of a body or response schema
schemaLines(d, s, indent) ==
    fieldsOrType(flattenSchemaFields(d, s), schemaToTypeText(d, s, 1), indent)

bodyLines(d, bodySchema) ==
    IF IsUndefined(bodySchema) THEN NoLines
    ELSE concatLines(Lines(<<"- body:">>), schemaLines(d, bodySchema, "  - "))

buildRequestLines(d, o) ==
    concatLines(parameterLines(d, LocationOrder,
                               IF "parameters" \in DOMAIN o THEN o.parameters ELSE <<>>),
                bodyLines(d, extractRequestBodySchema(o)))

firstResponse(responses) ==
    LET keys == ObjectEntries(responses) IN
    IF keys = <<>> THEN Undefined ELSE keys[1][2]

\* responses['200'] ?? responses['201'] ?? responses['default'] ?? firstResponse(responses)
preferredResponse(responses) ==
    IF ~IsNullish(Lookup(responses, "200")) THEN Lookup(responses, "200")
    ELSE IF ~IsNullish(Lookup(responses, "201")) THEN Lookup(responses, "201")
    ELSE IF ~IsNullish(Lookup(responses, "default")) THEN Lookup(responses, "default")
    ELSE firstResponse(responses)

responseLines(d, s) ==
    IF IsUndefined(s) THEN NoLines ELSE schemaLines(d, s, "- ")

preferredLines(d, preferred) ==
    IF IsNullish(preferred) THEN NoLines
    ELSE responseLines(d, extractResponseSchema(preferred))

buildResponseLines(d, o) ==
    preferredLines(d, preferredResponse(IF "responses" \in DOMAIN o THEN o.responses
                                        ELSE <<>>))

\* a section's lines, or the placeholder when it has none
orNone(section) ==
    IF section.threw THEN ThrownLines
    ELSE IF section.lines = <<>> THEN Lines(<<LabelNone>>)
    ELSE section

headerLines(rec) ==
    <<"[" \o toUpperCase(rec.method) \o "] " \o rec.path>>
    \o (IF "summary" \in DOMAIN rec /\ rec.summary # ""
        THEN <<LabelSummary \o rec.summary>> ELSE <<>>)
    \o (IF "tags" \in DOMAIN rec /\ rec.tags # <<>>
        THEN <<LabelTags \o joinStrings(rec.tags, ", ")>> ELSE <<>>)

\* the lines pushed for one operation record
operationBlock(d, rec) ==
    concatLines(
        concatLines(Lines(headerLines(rec) \o <<LabelRequest>>),
                    orNone(buildRequestLines(d, rec.operation))),
        concatLines(Lines(<<LabelResponse>>),
                    concatLines(orNone(buildResponseLines(d, rec.operation)),
                                Lines(<<"">>))))

RECURSIVE blocks(_, _)
\* for (const op of ops) { ... }
blocks(d, ops) ==
    IF ops = <<>> THEN NoLines
    ELSE concatLines(operationBlock(d, ops[1]), blocks(d, Tail(ops)))

\* the lines without their last one, followed by that line unless it is empty
withLastLine(lines, last) ==
    IF last = "" THEN lines ELSE Append(lines, last)

RECURSIVE trimEnd(_)
\* lines.join('\n').trimEnd(), kept as lines: the white space at the end of
\* the joined text goes, which is the trailing empty or blank lines, the line
\* breaks before them and the white space that ends the last line left
trimEnd(lines) ==
    IF lines = <<>> THEN <<>>
    ELSE IF trimEndString(lines[Len(lines)]) = ""
    THEN trimEnd(SubSeq(lines, 1, Len(lines) - 1))
    ELSE withLastLine(SubSeq(lines, 1, Len(lines) - 1), trimEndString(lines[Len(lines)]))

trimmed(b) == IF b.threw THEN ThrownLines ELSE Lines(trimEnd(b.lines))

\* The text is kept as its sequence of lines; '' is the empty sequence.
buildExportText(d, ops) ==
    IF ops = <<>> THEN NoLines ELSE trimmed(blocks(d, ops))

(***************************************************************************)
(* The App component's own state                                           *)
(***************************************************************************)

\* The fixed texts of the component, written here in ASCII.
LabelNoFile == "no file chosen"
LabelFetchFailed == "load failed: "
LabelCorsHint == " (possibly a CORS restriction, download the file and import it)"

\* type LoadStatus
Idle == [kind |-> "idle"]
Loading == [kind |-> "loading"]
Loaded(source) == [kind |-> "loaded", source |-> source]
Failed(message) == [kind |-> "error", message |-> message]

\* the initial values of the useState calls for the status, the boxes and the
\* file name; no load has been started
InitialUi ==
    /\ search = ""
    /\ url = ""
    /\ fileName = LabelNoFile
    /\ loadStatus = Idle
    /\ inFlight = <<>>

(***************************************************************************)
(* The schemas and documents the flattener and the renderer are run on     *)
(***************************************************************************)

Str == [type |-> "string"]
Int32 == [type |-> "integer", format |-> "int32"]
Int64 == [type |-> "integer", format |-> "int64"]
Ref(name) == "$ref" :> <<"#", "definitions", name>>
\* "other.json#/definitions/X": not of the document-internal "#/" form
RefExternal == "$ref" :> <<"other.json#", "definitions", "X">>
ArrayOf(items) == [type |-> "array", items |-> items]
Obj(props, req) == [type |-> "object", properties |-> props, required |-> req]

\* Schemas of the first property of definition A.
FirstChildren ==
    { Str,
      Int64,
      [type |-> "string", enum |-> <<"on", "off">>, description |-> "state"],
      Ref("A"),
      Ref("B"),
      Ref("Nope"),
      RefExternal,
      ArrayOf(Ref("A")),
      [oneOf |-> <<Str, Int32>>],
      [oneOf |-> <<>>, anyOf |-> <<Str, Int32>>],
      [type |-> "object", anyOf |-> <<Str, Ref("B")>>],
      [allOf |-> <<Ref("B"), Obj(<< <<"z", Int32>> >>, <<"z">>)>>],
      Obj(<< <<"c", Str>> >>, <<"c">>),
      [properties |-> << <<"c", Ref("B")>> >>],
      [type |-> "object", additionalProperties |-> Ref("B")] }

\* Schemas of the second property of definition A.
SecondChildren ==
    { Str, Ref("A"), Ref("B"), RefExternal, Obj(<< <<"c", Int32>> >>, <<"c">>) }

RequiredLists == { <<>>, <<"p">>, <<"q">>, <<"p", "q">> }

DefinitionsA ==
    { Obj(<< <<"p", c1>>, <<"q", c2>> >>, req) :
        c1 \in FirstChildren, c2 \in SecondChildren, req \in RequiredLists }

DefinitionsB ==
    { Obj(<< <<"c", Str>> >>, <<"c">>),
      Obj(<< <<"c", Str>>, <<"back", Ref("A")>> >>, <<"back">>),
      Ref("A"),
      ArrayOf(Ref("B")),
      [allOf |-> <<Obj(<< <<"c", Str>> >>, <<>>), Obj(<< <<"e", Int32>> >>, <<"e">>)>>],
      Int32 }

Documents ==
    { [definitions |-> [A |-> a, B |-> b], paths |-> <<>>] :
        a \in DefinitionsA, b \in DefinitionsB }

RootSchemas ==
    { Ref("A"),
      Ref("B"),
      RefExternal,
      Obj(<< <<"a", Ref("A")>> >>, <<"a">>),
      Obj(<< <<"a", Ref("A")>> >>, <<>>),
      [allOf |-> <<Ref("A"), Ref("B")>>],
      [allOf |-> <<Ref("B"), Ref("B")>>],
      [oneOf |-> <<>>, anyOf |-> <<Ref("B"), Int32>>],
      [anyOf |-> <<Str, Int32>>, description |-> "either"] }

(***************************************************************************)
(* Running the flattener and the renderer on one schema of one document    *)
(***************************************************************************)

InitFlatten ==
    /\ doc \in Documents
    /\ schema \in RootSchemas
    /\ fields = Pending
    /\ typeText = Pending
    /\ operations = Pending
    /\ selected = <<>>
    /\ exportText = <<>>
    /\ op = Undefined
    /\ reqLines = Pending
    /\ respLines = Pending
    /\ resolved = <<>>
    /\ InitialUi

Flatten ==
    /\ IsPending(fields)
    /\ fields' = flattenSchemaFields(doc, schema)
    /\ UNCHANGED <<doc, schema, typeText, operations, selected, exportText,
                   op, reqLines, respLines, resolved, ui>>

RenderType ==
    /\ IsPending(typeText)
    /\ typeText' = schemaToTypeText(doc, schema, 1)
    /\ UNCHANGED <<doc, schema, fields, operations, selected, exportText,
                   op, reqLines, respLines, resolved, ui>>

\* How many times in a row the model applies resolveSchema to its own result.
MaxHops == 2

\* resolveSchema(doc, schema), then resolveSchema(doc, <the previous result>)
ResolveSchema ==
    /\ Len(resolved) < MaxHops
    /\ resolved' = Append(resolved,
                          resolveSchema(doc, IF resolved = <<>> THEN schema
                                             ELSE resolved[Len(resolved)]))
    /\ UNCHANGED <<doc, schema, fields, typeText, operations, selected, exportText,
                   op, reqLines, respLines, ui>>

NextFlatten == Flatten \/ RenderType \/ ResolveSchema

SpecFlatten == InitFlatten /\ [][NextFlatten]_vars

(***************************************************************************)
(* The documents the operation extractor is run on                         *)
(***************************************************************************)

OpPlain == [summary |-> "list"]
OpWithId == [operationId |-> "b"]
OpString == [string |-> "oops"]

PathKeys == {"/a", "/a:b", "/b"}

SingleMethodItems ==
    { [object |-> << <<k, v>> >>] :
        k \in {"get", "GET", "post", "parameters"},
        v \in {OpPlain, OpWithId, Null, OpString} }

TwoMethodItems ==
    { [object |-> << <<k[1], v1>>, <<k[2], v2>> >>] :
        k \in {kk \in {"get", "GET", "post"} \X {"get", "GET", "post"} : kk[1] # kk[2]},
        v1 \in {OpPlain, OpWithId}, v2 \in {OpPlain, OpWithId} }

PathItems == SingleMethodItems \cup TwoMethodItems \cup {Null, [string |-> "oops"]}

\* Documents with one or two path entries, in the order of their declaration.
PathDocuments ==
    { [definitions |-> <<>>, paths |-> << <<k, v>> >>] : k \in PathKeys, v \in PathItems }
    \cup
    { [definitions |-> <<>>, paths |-> << <<k[1], v1>>, <<k[2], v2>> >>] :
        k \in {kk \in PathKeys \X PathKeys : kk[1] # kk[2]},
        v1 \in PathItems, v2 \in PathItems }

(***************************************************************************)
(* Running the operation extractor on one document                         *)
(***************************************************************************)

InitOperations ==
    /\ doc \in PathDocuments
    /\ schema = Undefined
    /\ fields = Pending
    /\ typeText = Pending
    /\ operations = Pending
    /\ selected = <<>>
    /\ exportText = <<>>
    /\ op = Undefined
    /\ reqLines = Pending
    /\ respLines = Pending
    /\ resolved = <<>>
    /\ InitialUi

BuildOperations ==
    /\ IsPending(operations)
    /\ operations' = buildOperations(doc)
    /\ UNCHANGED <<doc, schema, fields, typeText, selected, exportText,
                   op, reqLines, respLines, resolved, ui>>

Listed == ~IsPending(operations) /\ ~operations.threw

NextOperations == BuildOperations

SpecOperations == InitOperations /\ [][NextOperations]_vars

(***************************************************************************)
(* The App component: loading documents, the list of operations, the      *)
(* search box, the selection map and the export text                       *)
(***************************************************************************)

\* What a chosen file or a fetched URL holds: a JSON text, here the value it
\* parses to, or a text that is not JSON.  The documents a load may bring:
\* one with GET /a, one with POST /b, one with both declared out of order,
\* one whose two operations get the same identifier, one with a null
\* operation, and the JSON text `null`.
JsonTexts ==
    { [definitions |-> <<>>, paths |-> << <<"/a", [object |-> << <<"get", OpPlain>> >>]>> >>],
      [definitions |-> <<>>, paths |-> << <<"/b", [object |-> << <<"post", OpWithId>> >>]>> >>],
      [definitions |-> <<>>,
       paths |-> << <<"/b", [object |-> << <<"post", OpWithId>> >>]>>,
                    <<"/a", [object |-> << <<"get", OpPlain>> >>]>> >>],
      [definitions |-> <<>>,
       paths |-> << <<"/a", [object |-> << <<"get", OpWithId>> >>]>>,
                    <<"/a:b", [object |-> << <<"get", OpPlain>> >>]>> >>],
      [definitions |-> <<>>, paths |-> << <<"/a", [object |-> << <<"get", Null>> >>]>> >>],
      Null }

\* a text JSON.parse / res.json() rejects, with the message of the SyntaxError
Malformed == [malformed |-> TRUE]
SyntaxErrorMessage == "Unexpected end of JSON input"

\* a response whose `ok` is false, with its status
BadStatus == [status |-> "404"]

\* fetch rejects: the message of its TypeError
Unreachable == [rejected |-> "Failed to fetch"]

FileNames == {"api.json"}
UrlInputs == {" ", "http://h/api.json"}
SearchInputs == {"", " /B "}
TextInputs == {<<"note">>}

\* How many identifiers the selection map may hold.
MaxSelected == 2

\* How many loads may be stopped at their await at the same time.
MaxInFlight == 2

\* const operations = useMemo(() => { if (!doc) return []; return buildOperations(doc) }, [doc])
memoOperations(d) ==
    IF IsNull(d) THEN [threw |-> FALSE, out |-> <<>>] ELSE buildOperations(d)

\* A render that throws unmounts the component: no handler runs after it.
Mounted == ~operations.threw

InitApp ==
    /\ doc = Null
    /\ schema = Undefined
    /\ fields = Pending
    /\ typeText = Pending
    /\ operations = memoOperations(Null)
    /\ selected = <<>>
    /\ exportText = <<>>
    /\ op = Undefined
    /\ reqLines = Pending
    /\ respLines = Pending
    /\ resolved = <<>>
    /\ InitialUi

\* the filter of visibleOperations for one record, q being the lower-cased query
matchesSearch(rec, q) ==
    \/ includes(toLowerCase(rec.path), q)
    \/ includes(toLowerCase(rec.method), q)
    \/ includes(toLowerCase(IF "summary" \in DOMAIN rec THEN rec.summary ELSE ""), q)
    \/ includes(toLowerCase(joinStrings(IF "tags" \in DOMAIN rec THEN rec.tags ELSE <<>>,
                                        " ")), q)

filterOperations(ops, q) ==
    IF q = "" THEN ops ELSE SelectSeq(ops, LAMBDA rec : matchesSearch(rec, q))

\* const visibleOperations = useMemo(..., [operations, search])
visibleOperations == filterOperations(operations.out, toLowerCase(trim(search)))

\* onChange of the URL box
setUrl(value) ==
    /\ Mounted
    /\ url' = value
    /\ UNCHANGED <<doc, schema, fields, typeText, operations, selected, exportText,
                   op, reqLines, respLines, resolved,
                   search, fileName, loadStatus, inFlight>>

\* onChange of the search box
setSearch(value) ==
    /\ Mounted
    /\ search' = value
    /\ UNCHANGED <<doc, schema, fields, typeText, operations, selected, exportText,
                   op, reqLines, respLines, resolved,
                   url, fileName, loadStatus, inFlight>>

\* loadByUrl up to `await fetch(u)`; with a blank URL box it returns at once
loadByUrl ==
    /\ Mounted
    /\ trim(url) # ""
    /\ Len(inFlight) < MaxInFlight
    /\ loadStatus' = Loading
    /\ exportText' = <<>>
    /\ inFlight' = Append(inFlight, [via |-> "url", source |-> trim(url), at |-> "fetch"])
    /\ UNCHANGED <<doc, schema, fields, typeText, operations, selected,
                   op, reqLines, respLines, resolved,
                   search, url, fileName>>

\* loadByFile up to `await file.text()`
loadByFile(file) ==
    /\ Mounted
    /\ Len(inFlight) < MaxInFlight
    /\ loadStatus' = Loading
    /\ exportText' = <<>>
    /\ inFlight' = Append(inFlight, [via |-> "file", source |-> file, at |-> "text"])
    /\ UNCHANGED <<doc, schema, fields, typeText, operations, selected,
                   op, reqLines, respLines, resolved,
                   search, url, fileName>>

withoutLoad(i) == SubSeq(inFlight, 1, i - 1) \o SubSeq(inFlight, i + 1, Len(inFlight))

\* the try block after the await: setDoc, setFileName, setSelected({}),
\* setLoadStatus, and the render that follows with its new list of operations
loaded(i, json, name) ==
    /\ doc' = json
    /\ operations' = memoOperations(json)
    /\ fileName' = name
    /\ selected' = <<>>
    /\ loadStatus' = Loaded(inFlight[i].source)
    /\ inFlight' = withoutLoad(i)
    /\ UNCHANGED <<schema, fields, typeText, exportText,
                   op, reqLines, respLines, resolved, search, url>>

\* the catch block: setLoadStatus({ kind: 'error', message })
failed(i, message) ==
    /\ loadStatus' = Failed(message)
    /\ inFlight' = withoutLoad(i)
    /\ UNCHANGED <<doc, schema, fields, typeText, operations, selected, exportText,
                   op, reqLines, respLines, resolved, search, url, fileName>>

\* loadByFile from `await file.text()` on, the text of the file having arrived
loadByFileResumes(i, text) ==
    /\ Mounted
    /\ inFlight[i].via = "file"
    /\ inFlight[i].at = "text"
    /\ IF text = Malformed THEN failed(i, SyntaxErrorMessage)
       ELSE loaded(i, text, inFlight[i].source)

\* loadByUrl from `await fetch(u)` to `await res.json()`: fetch rejected, or
\* the response arrived and its `ok` is tested; with an ok response the call
\* stops again, waiting for the body
loadByUrlResumes(i, response) ==
    /\ Mounted
    /\ inFlight[i].via = "url"
    /\ inFlight[i].at = "fetch"
    /\ IF response = Unreachable THEN failed(i, response.rejected \o LabelCorsHint)
       ELSE IF response = BadStatus
       THEN failed(i, LabelFetchFailed \o response.status \o LabelCorsHint)
       ELSE /\ inFlight' = [inFlight EXCEPT ![i].at = "json"]
            /\ UNCHANGED <<doc, schema, fields, typeText, operations, selected,
                           exportText, op, reqLines, respLines, resolved,
                           search, url, fileName, loadStatus>>

\* loadByUrl from `await res.json()` on, the body having arrived
loadByUrlParses(i, body) ==
    /\ Mounted
    /\ inFlight[i].via = "url"
    /\ inFlight[i].at = "json"
    /\ IF body = Malformed THEN failed(i, SyntaxErrorMessage \o LabelCorsHint)
       ELSE loaded(i, body, LabelNoFile)

\* setSelected((prev) => ({ ...prev, [opId]: checked }))
toggle(opId, checked) ==
    /\ Mounted
    /\ opId \in DOMAIN selected \/ Cardinality(DOMAIN selected) < MaxSelected
    /\ selected' = Spread(selected, opId :> checked)
    /\ UNCHANGED <<doc, schema, fields, typeText, operations, exportText,
                   op, reqLines, respLines, resolved, ui>>

\* const next = { ...prev }; for (const op of visibleOperations) next[op.id] = checked
checkEach(prev, ops, checked) ==
    [k \in (DOMAIN prev) \cup {ops[i].id : i \in 1..Len(ops)} |->
        IF \E i \in 1..Len(ops) : ops[i].id = k THEN checked ELSE prev[k]]

setVisibleChecked(checked) ==
    /\ Mounted
    /\ Cardinality(DOMAIN checkEach(selected, visibleOperations, checked)) <= MaxSelected
    /\ selected' = checkEach(selected, visibleOperations, checked)
    /\ UNCHANGED <<doc, schema, fields, typeText, operations, exportText,
                   op, reqLines, respLines, resolved, ui>>

\* selected[op.id] is truthy
IsChosen(rec) == rec.id \in DOMAIN selected /\ selected[rec.id]

\* const selectedCount = Object.values(selected).filter(Boolean).length
selectedCount == Cardinality({k \in DOMAIN selected : selected[k]})

\* setExportText(txt); a handler that throws leaves the state as it was.
exported(txt) == IF txt.threw THEN exportText ELSE txt.lines

onExport ==
    /\ Mounted
    /\ ~IsNull(doc)
    /\ exportText' = exported(buildExportText(doc, SelectSeq(operations.out, IsChosen)))
    /\ UNCHANGED <<doc, schema, fields, typeText, operations, selected,
                   op, reqLines, respLines, resolved, ui>>

\* onChange of the textarea, and the clear button with value ''
setExportText(value) ==
    /\ Mounted
    /\ exportText' = value
    /\ UNCHANGED <<doc, schema, fields, typeText, operations, selected,
                   op, reqLines, respLines, resolved, ui>>

\* The handlers as the rendered page lets them run: a checkbox passes the
\* negation of the value it shows, the two select buttons are disabled while
\* no document is loaded, the export button also while nothing is chosen, and
\* the clear button while the export text is empty.
NextApp ==
    \/ \E value \in UrlInputs : setUrl(value)
    \/ \E value \in SearchInputs : setSearch(value)
    \/ loadByUrl
    \/ \E file \in FileNames : loadByFile(file)
    \/ \E i \in 1..Len(inFlight), text \in JsonTexts \cup {Malformed} :
          loadByFileResumes(i, text)
    \/ \E i \in 1..Len(inFlight), response \in {[ok |-> TRUE], BadStatus, Unreachable} :
          loadByUrlResumes(i, response)
    \/ \E i \in 1..Len(inFlight), body \in JsonTexts \cup {Malformed} :
          loadByUrlParses(i, body)
    \/ \E i \in 1..Len(visibleOperations) :
          /\ ~IsNull(doc)
          /\ toggle(visibleOperations[i].id, ~IsChosen(visibleOperations[i]))
    \/ \E checked \in BOOLEAN : ~IsNull(doc) /\ setVisibleChecked(checked)
    \/ ~IsNull(doc) /\ selectedCount # 0 /\ onExport
    \/ exportText # <<>> /\ setExportText(<<>>)
    \/ \E value \in TextInputs \cup {<<>>} : setExportText(value)

SpecApp == InitApp /\ [][NextApp]_vars

(***************************************************************************)
(* Building the request and response sections of one operation             *)
(***************************************************************************)

ReportDocument ==
    [definitions |->
        [A |-> Obj(<< <<"id", Str>>, <<"age", Int32>> >>, <<"id">>),
         B |-> Obj(<< <<"c", Str>> >>, <<"c">>)],
     paths |-> <<>>]

ParameterLists ==
    { <<>>,
      << ("in" :> "path") @@ [name |-> "id", required |-> TRUE, schema |-> Str] >>,
      << ("in" :> "query") @@ [name |-> "q", type |-> "integer", format |-> "int64"],
         ("in" :> "header") @@ [name |-> "h", type |-> "array", items |-> Str,
                                description |-> "trace id"],
         ("in" :> "query") @@ [name |-> "limit", required |-> FALSE, schema |-> Int32] >>,
      << [description |-> "anything"] >> }

RequestBodies ==
    { Undefined,
      [content |-> ("application/json" :> [schema |-> Ref("A")])],
      [content |-> ("*/*" :> [schema |-> RefExternal])],
      [required |-> TRUE] }

ResponseKeys == {"200", "201", "default", "204", "404"}

ResponseValues ==
    { [content |-> ("application/json" :> [schema |-> Ref("A")])],
      [content |-> ("*/*" :> [schema |-> ArrayOf(Ref("B"))])],
      [description |-> "old dialect", schema |-> [type |-> "string", description |-> "text"]],
      [description |-> "nothing"] }

\* Response tables with up to two entries, in the order of their declaration.
ResponseTables ==
    { <<>> }
    \cup { << <<k, v>> >> : k \in ResponseKeys, v \in ResponseValues }
    \cup { << <<k[1], v1>>, <<k[2], v2>> >> :
             k \in {kk \in ResponseKeys \X ResponseKeys : kk[1] # kk[2]},
             v1 \in ResponseValues, v2 \in ResponseValues }

OperationObjects ==
    { IF IsUndefined(b) THEN [parameters |-> ps, responses |-> rs]
      ELSE [parameters |-> ps, requestBody |-> b, responses |-> rs] :
        ps \in ParameterLists, b \in RequestBodies, rs \in ResponseTables }

InitReport ==
    /\ doc = ReportDocument
    /\ schema = Undefined
    /\ fields = Pending
    /\ typeText = Pending
    /\ operations = Pending
    /\ selected = <<>>
    /\ exportText = <<>>
    /\ op \in OperationObjects
    /\ reqLines = Pending
    /\ respLines = Pending
    /\ resolved = <<>>
    /\ InitialUi

BuildRequest ==
    /\ IsPending(reqLines)
    /\ reqLines' = buildRequestLines(doc, op)
    /\ UNCHANGED <<doc, schema, fields, typeText, operations, selected, exportText,
                   op, respLines, resolved, ui>>

BuildResponse ==
    /\ IsPending(respLines)
    /\ respLines' = buildResponseLines(doc, op)
    /\ UNCHANGED <<doc, schema, fields, typeText, operations, selected, exportText,
                   op, reqLines, resolved, ui>>

NextReport == BuildRequest \/ BuildResponse

SpecReport == InitReport /\ [][NextReport]_vars

(***************************************************************************)
(* Properties of the flattener and the renderer, under SpecFlatten         *)
(***************************************************************************)

Flattened == ~IsPending(fields)
Returned == Flattened /\ ~fields.threw
Names == IF Returned THEN {fields.out[i].name : i \in 1..Len(fields.out)} ELSE {}

FirstProperty == doc.definitions.A.properties[1][2]

\* C1: flattening a schema A whose property is a document-internal
\* reference to A itself comes to an end: the call returns its descriptors
\* instead of recursing until the call stack is exhausted.
C1_SelfReferenceTerminates ==
    (Flattened /\ schema = Ref("A") /\ FirstProperty = Ref("A")) => ~fields.threw

AllListed(chain) == \A i \in 1..Len(chain) : chain[i].listed

\* C2: the required flag of every emitted descriptor is the conjunction,
\* over the property steps of its path, of "the declaring object node lists
\* the property as required" (the root counting as required).
C2_RequiredIsConjunction ==
    Returned =>
        \A i \in 1..Len(fields.out) :
            fields.out[i].required = AllListed(fields.chains[i])

\* C2 witness: a descriptor two property steps deep whose inner object lists
\* it as required while the enclosing property is optional, so it is emitted
\* with required = false.
C2_Witness ==
    /\ Returned
    /\ \E i \in 1..Len(fields.out) :
          /\ Len(fields.chains[i]) >= 2
          /\ ~fields.chains[i][1].listed
          /\ fields.chains[i][Len(fields.chains[i])].listed
          /\ ~fields.out[i].required
    /\ \E i \in 1..Len(fields.out) :
          Len(fields.chains[i]) >= 2 /\ fields.out[i].required

\* C6: the type renderer is total: it returns a type string for every
\* schema of the document, also when items, additionalProperties or
\* composition members lead back to the node being rendered.
C6_TypeRendererTotal == ~IsPending(typeText) => ~typeText.threw

IsUnionNode(s) ==
    /\ ~HasRef(s)
    /\ ~NonEmptyList(s, "allOf")
    /\ NonEmptyList(s, "oneOf") \/ NonEmptyList(s, "anyOf")

\* the members of the composition that is not empty
NonEmptyUnion(s) == IF NonEmptyList(s, "oneOf") THEN s.oneOf ELSE s.anyOf

UnionText(s) == mapTypeText(doc, NonEmptyUnion(s), " | ", 1)

\* C7: a node with a non-empty oneOf or anyOf yields exactly one descriptor,
\* at its own path, whose type is the rendered members of the non-empty
\* composition joined by " | " and whose required flag is the current one.
C7_UnionIsOneDescriptor ==
    /\ (Returned /\ IsUnionNode(schema) /\ ~UnionText(schema).threw) =>
          /\ Len(fields.out) = 1
          /\ fields.out[1].name = "(root)"
          /\ fields.out[1].type = UnionText(schema).text
          /\ fields.out[1].required
    /\ (Returned /\ schema = Ref("A") /\ IsUnionNode(FirstProperty)
           /\ ~UnionText(FirstProperty).threw) =>
          /\ fields.out[1].name = "p"
          /\ fields.out[1].type = UnionText(FirstProperty).text
          /\ fields.out[1].required = ("p" \in Range(doc.definitions.A.required))
          /\ \A i \in 2..Len(fields.out) : fields.chains[i][1].key # "p"

Unresolvable(s) == HasRef(s) /\ IsUndefined(resolveRef(doc, s["$ref"]))

WithoutFirstProperty ==
    [doc EXCEPT !.definitions.A.properties = Tail(@)]

\* C8: a property whose schema is a reference that cannot be resolved is
\* still emitted, and the other properties of the object are emitted as they
\* are without it.
C8_UnresolvableIsEmitted ==
    (Returned /\ schema = Ref("A") /\ Unresolvable(FirstProperty)) =>
        /\ "p" \in Names
        /\ SelectSeq(fields.out, LAMBDA f : f.name # "p")
             = flattenSchemaFields(WithoutFirstProperty, schema).out

\* C10: an allOf composition that is the schema of a property is expanded
\* like one at the root: its members' leaf properties get their own
\* descriptors under the property's path and the composition is not emitted
\* as one descriptor.
C10_AllOfPropertyExpanded ==
    (Returned /\ schema = Ref("A") /\ NonEmptyList(FirstProperty, "allOf")
       /\ ~HasRef(FirstProperty)) =>
        /\ "p" \notin Names
        /\ "p.z" \in Names

\* the schema references definition B and B is itself a reference
ChainedReference ==
    /\ schema = Ref("B")
    /\ HasRef(doc.definitions.B)
    /\ ~IsUndefined(resolveRef(doc, doc.definitions.B["$ref"]))

\* C11: resolveSchema resolves one hop.  For a node referencing a definition
\* that is itself a reference to a second definition, one resolution still
\* carries the first definition's reference to the second, a second
\* resolution yields the second definition's keywords, and no result is the
\* empty node.
C11_OneHopKeepsInnerReference ==
    ChainedReference =>
        /\ Len(resolved) >= 1 =>
              /\ HasRef(resolved[1])
              /\ resolved[1]["$ref"] = doc.definitions.B["$ref"]
        /\ Len(resolved) >= 2 =>
              resolved[2] = resolveRef(doc, doc.definitions.B["$ref"])
        /\ \A i \in 1..Len(resolved) : DOMAIN resolved[i] # {}

SecondProperty == doc.definitions.A.properties[2][2]

WithoutSecondProperty ==
    [doc EXCEPT !.definitions.A.properties = <<@[1]>>]

\* the descriptors emitted under the property `key` of the root object
Under(key) ==
    {fields.out[i] : i \in {j \in 1..Len(fields.out) :
                                /\ fields.chains[j] # <<>>
                                /\ fields.chains[j][1].key = key}}

\* the two properties of definition A are references to the same definition
SiblingsShareReference ==
    /\ schema = Ref("A")
    /\ HasRef(FirstProperty)
    /\ SecondProperty = FirstProperty

\* the root is an allOf whose two members are references to the same definition
MembersShareReference ==
    /\ NonEmptyList(schema, "allOf")
    /\ Len(schema.allOf) = 2
    /\ HasRef(schema.allOf[1])
    /\ schema.allOf[2] = schema.allOf[1]

\* C12: a reference walked on one branch does not suppress the same
\* reference on a sibling branch: two sibling properties referencing the
\* same definition each yield the descriptors they yield when the other
\* property is absent, and so do two allOf members.
C12_SiblingReferencesNotSuppressed ==
    /\ (Returned /\ SiblingsShareReference) =>
          /\ Under("p") = Range(flattenSchemaFields(WithoutSecondProperty, schema).out)
          /\ Under("q") = Range(flattenSchemaFields(WithoutFirstProperty, schema).out)
          /\ Len(fields.out) = Cardinality(Under("p")) + Cardinality(Under("q"))
    /\ (Returned /\ MembersShareReference) =>
          fields.out = flattenSchemaFields(doc, [allOf |-> <<schema.allOf[1]>>]).out
                          \o flattenSchemaFields(doc, [allOf |-> <<schema.allOf[2]>>]).out

\* C12 witness: both properties reference definition B, an object, and the
\* call returns B's field under each of them.
C12_Witness ==
    /\ Returned
    /\ SiblingsShareReference
    /\ FirstProperty = Ref("B")
    /\ "p.c" \in Names
    /\ "q.c" \in Names

(***************************************************************************)
(* Properties of the operation extractor, under SpecOperations             *)
(***************************************************************************)

\* the sequences holding the entries of s in some order
Orderings(s) == {t \in [1..Len(s) -> Range(s)] : Range(t) = Range(s)}

\* a path entry with its method keys declared in some order
ReorderedEntry(e) ==
    IF IsObject(e[2]) THEN {<<e[1], [object |-> m]>> : m \in Orderings(e[2].object)}
    ELSE {e}

\* the path tables holding the same path entries and method keys as `paths`
Reorderings(paths) ==
    UNION { {q \in [1..Len(t) -> UNION {ReorderedEntry(t[i]) : i \in 1..Len(t)}] :
                \A i \in 1..Len(t) : q[i] \in ReorderedEntry(t[i])} :
            t \in Orderings(paths) }

\* C3: the records and their order depend only on the (path, method) pairs:
\* every document with the same path entries and method keys declared in
\* another order yields the identical sequence, sorted by path, then method.
C3_OrderIndependentOfEnumeration ==
    Listed =>
        /\ \A q \in Reorderings(doc.paths) :
              buildOperations([doc EXCEPT !.paths = q]) = operations
        /\ \A i, j \in 1..Len(operations.out) :
              i < j => compareOperations(operations.out[i], operations.out[j]) <= 0

\* C4: no two records of one buildOperations result share an identifier.
C4_IdentifiersUnique ==
    Listed =>
        \A i, j \in 1..Len(operations.out) :
            i # j => operations.out[i].id # operations.out[j].id

\* an operation definition that is an object, not null or a primitive
IsOperationObject(v) == ~IsNull(v) /\ "string" \notin DOMAIN v

\* the well-formed entries: the path entry is an object, the key is an HTTP
\* method name and its value is an object
WellFormedEntries ==
    UNION { { <<e[1], m[1], m[2]>> :
                m \in {x \in Range(e[2].object) :
                          toLowerCase(x[1]) \in httpMethods /\ IsOperationObject(x[2])} } :
            e \in {x \in Range(doc.paths) : IsObject(x[2])} }

\* C5: malformed entries are skipped without raising, and every well-formed
\* (path, method) entry yields exactly one record.
C5_MalformedEntriesSkipped ==
    ~IsPending(operations) =>
        /\ ~operations.threw
        /\ Len(operations.out) = Cardinality(WellFormedEntries)
        /\ \A w \in WellFormedEntries :
              \E i \in 1..Len(operations.out) :
                  operations.out[i] = operationRecord(w[1], w[2], w[3])

(***************************************************************************)
(* Properties of the report builder, under SpecReport                      *)
(***************************************************************************)

\* the response the preference order names: 200, else 201, else default,
\* else the first response the document declares
DeclaredPreference(responses) ==
    IF HasKey(responses, "200") THEN Lookup(responses, "200")
    ELSE IF HasKey(responses, "201") THEN Lookup(responses, "201")
    ELSE IF HasKey(responses, "default") THEN Lookup(responses, "default")
    ELSE IF responses # <<>> THEN responses[1][2]
    ELSE Undefined

\* C9: the response section lists the flattened fields of the schema of the
\* response chosen by 200, else 201, else default, else first declared, and
\* is empty (rendered as "none") when that response has no schema.
C9_ResponseByPreference ==
    ~IsPending(respLines) =>
        respLines = preferredLines(doc, DeclaredPreference(op.responses))

====
